---- MODULE Spec2Model ----
(***************************************************************************)
(* A model of pykrige/sk.py: the SimpleKriging session (construction,      *)
(* update_variogram_model, execute) and the three solve strategies.        *)
(*                                                                         *)
(* Numbers are exact rationals <<numerator, denominator>> in lowest terms  *)
(* with a positive denominator, so every result below is the result of the *)
(* code in real arithmetic (no rounding).  A distance is carried as its    *)
(* square, which is exact for rational coordinates; the variogram          *)
(* functions are read as functions of that squared distance.               *)
(***************************************************************************)
EXTENDS Integers, Sequences, FiniteSets, TLC

VARIABLES
    state,                      \* "Uninitialized" | "VariogramFitted" | "ConstructionFailed"
    X_ORIG, Y_ORIG, Z,          \* the data set (sk.py 194-196)
    XCENTER, YCENTER,           \* anisotropy center (sk.py 203-204)
    anisotropy_scaling,         \* sk.py 205
    anisotropy_angle,           \* sk.py 206
    X_ADJUSTED, Y_ADJUSTED,     \* working-frame coordinates (sk.py 209)
    variogram_model,            \* the variogram kind (sk.py 214)
    variogram_function,         \* sk.py 221/223
    variogram_model_parameters, \* sk.py 226
    statistics,                 \* delta, sigma, epsilon, Q1, Q2, cR (sk.py 253-264)
    n_updates,                  \* update_variogram_model calls made so far
    last,                       \* the last call: its name, arguments and outcome
    calls                       \* the steps of the last call: fit, statistics, matrix, solver

vars == <<state, X_ORIG, Y_ORIG, Z, XCENTER, YCENTER, anisotropy_scaling,
          anisotropy_angle, X_ADJUSTED, Y_ADJUSTED, variogram_model,
          variogram_function, variogram_model_parameters, statistics,
          n_updates, last, calls>>

session == <<X_ORIG, Y_ORIG, Z, XCENTER, YCENTER, anisotropy_scaling,
             anisotropy_angle, X_ADJUSTED, Y_ADJUSTED, variogram_model,
             variogram_function, variogram_model_parameters, statistics>>

-----------------------------------------------------------------------------
(* Bounds of the exploration. *)

MaxUpdates == 1

-----------------------------------------------------------------------------
(* Exact rational arithmetic. *)

Abs(i) == IF i < 0 THEN -i ELSE i

RECURSIVE GCD(_, _)
GCD(a, b) == IF b = 0 THEN a ELSE GCD(b, a % b)

Rat(num, den) ==
    LET g == GCD(Abs(num), Abs(den))
        s == IF den < 0 THEN -1 ELSE 1
    IN  <<(s * num) \div g, (s * den) \div g>>

R(i) == <<i, 1>>
Zero == R(0)

Rational == Int \X Int

\* Sum and product are functions of their operands.  Common factors are
\* cancelled before multiplying, which keeps the integers small.
sum == [a \in Rational, b \in Rational |->
           LET g == GCD(a[2], b[2])
           IN  Rat(a[1] * (b[2] \div g) + b[1] * (a[2] \div g), (a[2] \div g) * b[2])]

product == [a \in Rational, b \in Rational |->
               LET g == GCD(Abs(a[1]), b[2])
                   h == GCD(Abs(b[1]), a[2])
               IN  Rat((a[1] \div g) * (b[1] \div h), (a[2] \div h) * (b[2] \div g))]

RAdd(a, b) == sum[a, b]
RNeg(a) == <<-a[1], a[2]>>
RSub(a, b) == RAdd(a, RNeg(b))
RMul(a, b) == product[a, b]
RDiv(a, b) == RMul(a, Rat(b[2], b[1]))
RLess(a, b) == a[1] * b[2] < b[1] * a[2]
RMin(a, b) == IF RLess(b, a) THEN b ELSE a
RMax(a, b) == IF RLess(a, b) THEN b ELSE a

\* The tuple <<f[1], ..., f[n]>>: an array whose entries are computed once.
array(f, n) == SubSeq(f, 1, n)

RECURSIVE SumTo(_, _)
SumTo(s, k) == IF k = 0 THEN Zero ELSE RAdd(SumTo(s, k - 1), s[k])

RSum(s) == SumTo(s, Len(s))

\* The first entry taken for the largest.
amax_first(s) == s[1]

RECURSIVE amax(_)
amax(s) == IF Len(s) = 1 THEN s[1] ELSE RMax(Head(s), amax(Tail(s)))

RECURSIVE amin(_)
amin(s) == IF Len(s) = 1 THEN s[1] ELSE RMin(Head(s), amin(Tail(s)))

-----------------------------------------------------------------------------
(* Dense linear algebra: a matrix is a sequence of rows. *)

RECURSIVE DotTo(_, _, _)
DotTo(u, v, k) == IF k = 0 THEN Zero ELSE RAdd(DotTo(u, v, k - 1), RMul(u[k], v[k]))

Dot(u, v) == DotTo(u, v, Len(u))

Drop(s, k) == array([i \in 1..(Len(s) - 1) |-> IF i < k THEN s[i] ELSE s[i + 1]],
                    Len(s) - 1)

Minor(m, r, c) ==
    LET rows == Drop(m, r)
    IN  array([i \in 1..Len(rows) |-> Drop(rows[i], c)], Len(rows))

Sign(k) == IF k % 2 = 0 THEN R(1) ELSE R(-1)

RECURSIVE Det(_)
Det(m) ==
    IF Len(m) = 0 THEN R(1)
    ELSE IF Len(m) = 1 THEN m[1][1]
    ELSE RSum(array([c \in 1..Len(m) |->
                        RMul(RMul(Sign(1 + c), m[1][c]), Det(Minor(m, 1, c)))],
                    Len(m)))

Singular(m) == Det(m) = Zero

\* scipy.linalg.inv: the inverse of a non-singular square matrix.
inv(m) ==
    LET d == Det(m)
    IN  array([i \in 1..Len(m) |-> array([j \in 1..Len(m) |->
                  RDiv(RMul(Sign(i + j), Det(Minor(m, j, i))), d)], Len(m))], Len(m))

\* np.dot with the last column of the matrix left out.
MatVec_short(m, v) == array([i \in 1..Len(m) |-> DotTo(m[i], v, Len(v) - 1)], Len(m))

MatVec(m, v) == array([i \in 1..Len(m) |-> Dot(m[i], v)], Len(m))

-----------------------------------------------------------------------------
(* Optional arguments: None is the empty tuple, a supplied value v is <<v>>. *)

None == <<>>
Some(v) == <<v>>

-----------------------------------------------------------------------------
(* core.adjust_for_anisotropy: shift to the center, rotate by -angle degrees, *)
(* stretch the rotated y axis by scaling, shift back.  Angles are multiples   *)
(* of 90 degrees, whose sine and cosine are exact.                            *)

CosDeg(a) == CASE a % 360 = 0 -> R(1) [] a % 360 = 90 -> R(0)
               [] a % 360 = 180 -> R(-1) [] a % 360 = 270 -> R(0)

SinDeg(a) == CASE a % 360 = 0 -> R(0) [] a % 360 = 90 -> R(1)
               [] a % 360 = 180 -> R(0) [] a % 360 = 270 -> R(-1)

adjust_for_anisotropy(x, y, xcenter, ycenter, scaling, angle) ==
    LET dx(i) == RSub(x[i], xcenter)
        dy(i) == RSub(y[i], ycenter)
        rx(i) == RSub(RMul(CosDeg(-angle), dx(i)), RMul(SinDeg(-angle), dy(i)))
        ry(i) == RAdd(RMul(SinDeg(-angle), dx(i)), RMul(CosDeg(-angle), dy(i)))
    IN  << array([i \in 1..Len(x) |-> RAdd(rx(i), xcenter)], Len(x)),
           array([i \in 1..Len(x) |-> RAdd(RMul(scaling, ry(i)), ycenter)], Len(x)) >>

\* scipy.spatial.distance.cdist(.., 'euclidean'), each entry carried as its square.
cdist(px, py, qx, qy) ==
    array([i \in 1..Len(px) |-> array([j \in 1..Len(qx) |->
        LET dx == RSub(px[i], qx[j])
            dy == RSub(py[i], qy[j])
        IN  RAdd(RMul(dx, dx), RMul(dy, dy))], Len(qx))], Len(px))

-----------------------------------------------------------------------------
(* The variogram catalogue (module variogram_models) and the callables a     *)
(* caller may supply.  Each function maps (parameters, squared distance) to  *)
(* a semivariance.  The bounded built-ins take [sill, range, nugget]: they   *)
(* return the nugget at distance 0 and rise monotonically to the sill.       *)
(* Their closed forms (exponentials, odd powers of the distance) are not     *)
(* rational; each is represented by a piecewise polynomial in                *)
(* s = (distance / range)^2 with those properties.  linear takes [slope,     *)
(* nugget] and power [scale, exponent, nugget].                              *)

variogram_dict ==
    [linear |-> "linear_variogram_model",
     power |-> "power_variogram_model",
     gaussian |-> "gaussian_variogram_model",
     spherical |-> "spherical_variogram_model",
     exponential |-> "exponential_variogram_model"]

CustomFunctions == {"caller_variogram"}

callable(f) == f \in CustomFunctions

RECURSIVE RPow(_, _)
RPow(a, k) == IF k = 0 THEN R(1) ELSE RMul(a, RPow(a, k - 1))

Ramp(p, h) == RMin(R(1), RDiv(h, RMul(p[2], p[2])))

Bounded(p, rise) == RAdd(RMul(RSub(p[1], p[3]), rise), p[3])

EvalVariogram(f, p, h) ==
    CASE f = "linear_variogram_model" -> RAdd(RMul(p[1], h), p[2])
      [] f = "power_variogram_model" -> RAdd(RMul(p[1], RPow(h, p[2][1])), p[3])
      [] f = "gaussian_variogram_model" ->
            Bounded(p, RMul(Ramp(p, h), RSub(R(2), Ramp(p, h))))
      [] f = "spherical_variogram_model" -> Bounded(p, Ramp(p, h))
      [] f = "exponential_variogram_model" ->
            Bounded(p, RDiv(RAdd(Ramp(p, h), Ramp(p, RMul(R(2), h))), R(2)))
      [] f = "caller_variogram" -> RMul(p[1], RMin(R(1), RDiv(h, R(8))))

-----------------------------------------------------------------------------
(* core.initialize_variogram_model: the external fit.  Explicit parameters   *)
(* are checked for their count and returned; without them the built-in kinds *)
(* are fitted to the data and 'custom' is refused.                           *)

ParameterCount(kind) == IF kind = "linear" THEN 2 ELSE 3

FittedParameters(kind) ==
    CASE kind = "linear" -> <<R(1), R(0)>>
      [] kind = "power" -> <<R(1), R(1), R(0)>>
      [] OTHER -> <<R(3), R(2), R(0)>>

initialize_variogram_model(kind, variogram_parameters) ==
    IF kind \notin DOMAIN variogram_dict /\ kind # "custom"
    THEN [ok |-> FALSE, parameters |-> <<>>]
    ELSE IF variogram_parameters = None
    THEN IF kind = "custom"
         THEN [ok |-> FALSE, parameters |-> <<>>]
         ELSE [ok |-> TRUE, parameters |-> FittedParameters(kind)]
    ELSE IF kind # "custom" /\ Len(variogram_parameters[1]) # ParameterCount(kind)
    THEN [ok |-> FALSE, parameters |-> <<>>]
    ELSE [ok |-> TRUE, parameters |-> variogram_parameters[1]]

\* core.find_statistics and calcQ1, calcQ2, calc_cR: determined by their inputs.
find_statistics(x, y, f, p) == Some([x |-> x, y |-> y, function |-> f, parameters |-> p])

-----------------------------------------------------------------------------
(* Arrays.  A cell of a result array holds a value, or is masked (a cell of  *)
(* a numpy masked array whose flag is set; its value is not observable).     *)

Cell(v) == [masked |-> FALSE, value |-> v]
MaskedCell == [masked |-> TRUE, value |-> Zero]

RECURSIVE flatten(_)
flatten(m) == IF m = <<>> THEN <<>> ELSE Head(m) \o flatten(Tail(m))

transpose(m) ==
    array([c \in 1..Len(m[1]) |-> array([r \in 1..Len(m) |-> m[r][c]], Len(m))],
          Len(m[1]))

reshape(flat, rows, cols) ==
    array([r \in 1..rows |-> array([c \in 1..cols |-> flat[(r - 1) * cols + c]], cols)],
          rows)

\* np.meshgrid(xpts, ypts): two ny-by-nx grids.
meshgrid(xpts, ypts) ==
    << array([r \in 1..Len(ypts) |-> xpts], Len(ypts)),
       array([r \in 1..Len(ypts) |-> array([c \in 1..Len(xpts) |-> ypts[r]], Len(xpts))],
             Len(ypts)) >>

\* np.zeros(k, dtype='bool')
zeros(k) == array([j \in 1..k |-> FALSE], k)

Raise(e) == [ok |-> FALSE, error |-> e, zvalues |-> <<>>, sigmasq |-> <<>>]
Return(zv, ss) == [ok |-> TRUE, error |-> "", zvalues |-> zv, sigmasq |-> ss]

-----------------------------------------------------------------------------
(* The kriging matrix and the three solve strategies (sk.py 394-475).  They  *)
(* read the session's fields, like the methods they model.                   *)

sill == variogram_model_parameters[1]

\* self.variogram_function(self.variogram_model_parameters, d) raises when the
\* function reads a parameter the vector does not hold.
Evaluable ==
    /\ Len(variogram_model_parameters) >= 1
    /\ variogram_function \in {"gaussian_variogram_model", "spherical_variogram_model",
                               "exponential_variogram_model", "power_variogram_model"}
          => Len(variogram_model_parameters) >= 3
    /\ variogram_function = "linear_variogram_model"
          => Len(variogram_model_parameters) >= 2

covariance(d) ==
    RSub(sill, EvalVariogram(variogram_function, variogram_model_parameters, d))

\* The matrix of the raw coordinates: the one a session without anisotropy has.
_get_kriging_matrix_raw(n) ==
    LET d == cdist(X_ORIG, Y_ORIG, X_ORIG, Y_ORIG)
    IN  array([i \in 1..n |-> array([j \in 1..n |-> covariance(d[i][j])], n)], n)

_get_kriging_matrix(n) ==
    LET d == cdist(X_ADJUSTED, Y_ADJUSTED, X_ADJUSTED, Y_ADJUSTED)
    IN  array([i \in 1..n |-> array([j \in 1..n |-> covariance(d[i][j])], n)], n)

\* With an unmasked point present b becomes a masked array (sk.py 418-420) and
\* the variance of a masked point comes out masked.  Its estimate is kept as a
\* value: execute masks it in any case (sk.py 627), whatever np.dot makes of
\* the mask of b.
_exec_vector(a, bd, mask) ==
    LET npt == Len(bd)
        n == Len(X_ADJUSTED)
    IN  IF Singular(a) THEN Raise("LinAlgError: singular matrix")
        ELSE
        LET a_inv == inv(a)
            b == array([j \in 1..npt |->
                          array([i \in 1..n |-> covariance(bd[j][i])], n)], npt)
            any_unmasked == \E j \in 1..npt : ~mask[j]
            \* np.dot(a_inv, b.T): n rows, npt columns, stored row after row
            w == flatten(array([i \in 1..n |->
                          array([j \in 1..npt |-> Dot(a_inv[i], b[j])], npt)], n))
            \* .reshape((1, n, npt)).T: x[j][i] is entry (i, j) of the product
            x == array([j \in 1..npt |->
                          array([i \in 1..n |-> w[(i - 1) * npt + j]], n)], npt)
            zvalues == array([j \in 1..npt |-> Cell(Dot(x[j], Z))], npt)
            sigmasq == array([j \in 1..npt |->
                          IF any_unmasked /\ mask[j] THEN MaskedCell
                          ELSE Cell(RSub(sill, Dot(x[j], b[j])))], npt)
        IN  Return(zvalues, sigmasq)

_exec_loop(a, bd_all, mask) ==
    LET npt == Len(bd_all)
        n == Len(X_ADJUSTED)
    IN  IF Singular(a) THEN Raise("LinAlgError: singular matrix")
        ELSE
        LET a_inv == inv(a)
            \* one pass of the loop: the pair (zvalues[j], sigmasq[j])
            pass(j) ==
                IF mask[j] THEN <<Cell(Zero), Cell(Zero)>>
                ELSE LET b == array([i \in 1..n |-> covariance(bd_all[j][i])], n)
                         x == MatVec(a_inv, b)
                     IN  <<Cell(Dot(x, Z)), Cell(RSub(sill, Dot(x, b)))>>
            passes == array([j \in 1..npt |-> pass(j)], npt)
        IN  Return(array([j \in 1..npt |-> passes[j][1]], npt),
                   array([j \in 1..npt |-> passes[j][2]], npt))

\* scipy.linalg.solve(a, b): refuses operands of different order, then a
\* singular matrix.
solve(a, b) ==
    IF Len(a) # Len(b) THEN [ok |-> FALSE, error |-> "ValueError: incompatible dimensions", x |-> <<>>]
    ELSE IF Singular(a) THEN [ok |-> FALSE, error |-> "LinAlgError: singular matrix", x |-> <<>>]
    ELSE [ok |-> TRUE, error |-> "", x |-> MatVec(inv(a), b)]

\* cKDTree(xy_data).query(point, k): the indices of the k data points nearest
\* to the point, nearest first (equal distances in index order).  When fewer
\* than k data points exist the missing neighbours get the index one past the
\* last data point.
RECURSIVE Nearest(_, _, _)
Nearest(row, chosen, k) ==
    IF k = 0 THEN <<>>
    ELSE IF chosen = DOMAIN row THEN <<Len(row) + 1>> \o Nearest(row, chosen, k - 1)
    ELSE LET rest == DOMAIN row \ chosen
             best == CHOOSE i \in rest : \A j \in rest :
                        RLess(row[i], row[j]) \/ (~RLess(row[j], row[i]) /\ i <= j)
         IN  <<best>> \o Nearest(row, chosen \cup {best}, k - 1)

query(d, k) == array([j \in 1..Len(d) |-> Nearest(d[j], {}, k)], Len(d))

\* a_selector of _exec_loop_moving_window (sk.py 464): the neighbours' indices
\* followed by the last index of the full matrix.
a_selector(b_selector, a_all) == b_selector \o <<Len(a_all)>>

\* One pass of the loop of _exec_loop_moving_window (sk.py 470-473): the
\* system of the selected neighbours is solved and the estimate formed.
window_estimate(sol, b, z) ==
    IF ~sol.ok THEN [ok |-> FALSE, error |-> sol.error, z |-> Zero, s |-> Zero]
    ELSE [ok |-> TRUE, error |-> "", z |-> Dot(sol.x, z), s |-> RSub(sill, Dot(sol.x, b))]

\* a_all[a_selector[:, None], a_selector] (sk.py 465)
submatrix(a_all, sel) ==
    array([r \in 1..Len(sel) |-> array([c \in 1..Len(sel) |-> a_all[sel[r]][sel[c]]],
                                       Len(sel))], Len(sel))

\* sk.py 461-473 for one unmasked point i with neighbours b_selector
window_pass(a_all, bd, b_selector, sel, n) ==
    IF \E r \in 1..Len(sel) : sel[r] > Len(a_all)
    THEN [ok |-> FALSE, error |-> "IndexError: index out of bounds",
          z |-> Zero, s |-> Zero]
    ELSE window_estimate(
            solve(submatrix(a_all, sel),
                  array([m \in 1..n |-> covariance(bd[b_selector[m]])], n)),
            array([m \in 1..n |-> covariance(bd[b_selector[m]])], n),
            array([m \in 1..n |-> Z[b_selector[m]]], n))

\* The loop ends at the first pass that raises; otherwise the two arrays are
\* returned.
window_result(passes, npt) ==
    LET failing == {i \in 1..npt : ~passes[i].ok}
    IN  IF failing # {}
        THEN Raise(passes[CHOOSE i \in failing : \A j \in failing : i <= j].error)
        ELSE Return(array([i \in 1..npt |-> Cell(passes[i].z)], npt),
                    array([i \in 1..npt |-> Cell(passes[i].s)], npt))

\* d_all[i] holds point i's distance to every data point; the distances to its
\* neighbours (the bd_all of the code) are d_all[i] at the indices bd_idx[i].
\* With k = 1, query returns one-dimensional arrays and bd_idx.shape[1] raises.
_exec_loop_moving_window(a_all, d_all, mask, bd_idx, k) ==
    IF k = 1 THEN Raise("IndexError: tuple index out of range")
    ELSE window_result(
            array([i \in 1..Len(d_all) |->
                     IF mask[i] THEN [ok |-> TRUE, error |-> "", z |-> Zero, s |-> Zero]
                     ELSE window_pass(a_all, d_all[i], bd_idx[i],
                                      a_selector(bd_idx[i], a_all), k)], Len(d_all)),
            Len(d_all))

-----------------------------------------------------------------------------
(* execute (sk.py 477-634), as a function of the session and its arguments. *)

Styles == {"grid", "masked", "points"}

\* sk.py 560-561: the mask has the grid's shape, or the transposed shape
fits(mask, ny, nx) == Len(mask) = ny /\ Len(mask[1]) = nx
swapped(mask, ny, nx) == Len(mask) = nx /\ Len(mask[1]) = ny

\* sk.py 566-580 and 585-586, 616: the points asked for, in the working frame,
\* and their distances to the data points
distances(xpts, ypts) ==
    LET pts == adjust_for_anisotropy(xpts, ypts, XCENTER, YCENTER,
                                     anisotropy_scaling, anisotropy_angle)
    IN  cdist(pts[1], pts[2], X_ADJUSTED, Y_ADJUSTED)

\* A dispatch that falls back to the point loop for a backend it does not know.
dispatch_fallback(a, bd, mask, backend, n_closest_points) ==
    IF n_closest_points # None
    THEN IF backend = "loop"
         THEN _exec_loop_moving_window(a, bd, mask, query(bd, n_closest_points[1]),
                                       n_closest_points[1])
         ELSE Raise("ValueError: backend not supported for a moving window")
    ELSE IF backend = "vectorized" THEN _exec_vector(a, bd, mask)
    ELSE _exec_loop(a, bd, mask)

\* sk.py 603-624: the choice of the solver
dispatch(a, bd, mask, backend, n_closest_points) ==
    IF n_closest_points # None
    THEN IF backend = "loop"
         THEN _exec_loop_moving_window(a, bd, mask, query(bd, n_closest_points[1]),
                                       n_closest_points[1])
         ELSE Raise("ValueError: backend not supported for a moving window")
    ELSE IF backend = "vectorized" THEN _exec_vector(a, bd, mask)
    ELSE IF backend = "loop" THEN _exec_loop(a, bd, mask)
    ELSE Raise("ValueError: backend not supported")

\* The arrays returned as the solver left them, without the mask.
wrap_values(style, mask, cells) == cells

\* sk.py 626-628: np.ma.array(values, mask=mask)
wrap(style, mask, cells) ==
    IF style = "masked"
    THEN array([j \in 1..Len(cells) |-> IF mask[j] \/ cells[j].masked
                                        THEN MaskedCell ELSE cells[j]], Len(cells))
    ELSE cells

\* The grid filled column after column.
shape_by_columns(style, ny, nx, cells) ==
    IF style = "points" THEN cells ELSE transpose(reshape(cells, nx, ny))

\* sk.py 630-632
shape(style, ny, nx, cells) ==
    IF style = "points" THEN cells ELSE reshape(cells, ny, nx)

\* sk.py 626-634
finish(style, ny, nx, mask, solved) ==
    IF ~solved.ok THEN solved
    ELSE Return(shape(style, ny, nx, wrap(style, mask, solved.zvalues)),
                shape(style, ny, nx, wrap(style, mask, solved.sigmasq)))

\* The check of sk.py 543 with 'power' forgotten.
unbounded_linear_only(kind) == kind = "linear"

\* sk.py 543: the kinds whose correlation is not well behaved
unbounded(kind) == kind = "linear" \/ kind = "power"

\* sk.py 566-569 and 575: the points asked for, one coordinate array each.  A
\* grid is listed row after row (np.meshgrid, then flatten).
xpts(style, xpoints, ypoints) ==
    IF style = "points" THEN xpoints ELSE flatten(meshgrid(xpoints, ypoints)[1])
ypts(style, xpoints, ypoints) ==
    IF style = "points" THEN ypoints ELSE flatten(meshgrid(xpoints, ypoints)[2])

\* The mask flattened as given, a swapped one not transposed.
flatmask_as_given(style, mask, ny, nx, npt) ==
    IF style # "masked" THEN zeros(npt) ELSE flatten(mask[1])

\* sk.py 562-565 and 582-583: the flat mask the solvers see
flatmask(style, mask, ny, nx, npt) ==
    IF style # "masked" THEN zeros(npt)
    ELSE IF fits(mask[1], ny, nx) THEN flatten(mask[1])
    ELSE flatten(transpose(mask[1]))

execute(style, xpoints, ypoints, mask, backend, n_closest_points) ==
    IF unbounded(variogram_model)
    THEN Raise("ValueError: variogram must have well behaved correlation")
    ELSE IF style # "grid" /\ style # "masked" /\ style # "points"
    THEN Raise("ValueError: style argument")
    ELSE IF ~Evaluable
    THEN Raise("IndexError: variogram parameters")
    ELSE
    LET n == Len(X_ADJUSTED)
        nx == Len(xpoints)
        ny == Len(ypoints)
        npt == IF style = "points" THEN nx ELSE ny * nx
    IN  IF style = "masked" /\ mask = None
        THEN Raise("IOError: must specify boolean masking array")
        ELSE IF style = "masked" /\ ~fits(mask[1], ny, nx) /\ ~swapped(mask[1], ny, nx)
        THEN Raise("ValueError: mask dimensions do not match")
        ELSE IF style = "points" /\ nx # ny
        THEN Raise("ValueError: xpoints and ypoints must have same dimensions")
        ELSE finish(style, ny, nx, flatmask(style, mask, ny, nx, npt),
                    dispatch(_get_kriging_matrix(n),
                             distances(xpts(style, xpoints, ypoints),
                                       ypts(style, xpoints, ypoints)),
                             flatmask(style, mask, ny, nx, npt),
                             backend, n_closest_points))

\* The steps of execute, in the order of the code, up to the return or the
\* raise: the matrix is built at sk.py 554, before the checks of the mask and
\* of the points, and the solver is chosen at sk.py 603-624.
execute_calls(style, xpoints, ypoints, mask, backend, n_closest_points) ==
    IF unbounded(variogram_model) THEN <<>>
    ELSE IF style # "grid" /\ style # "masked" /\ style # "points" THEN <<>>
    ELSE IF ~Evaluable THEN <<"_get_kriging_matrix">>
    ELSE IF style = "masked" /\ mask = None THEN <<"_get_kriging_matrix">>
    ELSE IF style = "masked" /\ ~fits(mask[1], Len(ypoints), Len(xpoints))
                             /\ ~swapped(mask[1], Len(ypoints), Len(xpoints))
    THEN <<"_get_kriging_matrix">>
    ELSE IF style = "points" /\ Len(xpoints) # Len(ypoints) THEN <<"_get_kriging_matrix">>
    ELSE IF n_closest_points # None
    THEN IF backend = "loop"
         THEN <<"_get_kriging_matrix", "_exec_loop_moving_window">>
         ELSE <<"_get_kriging_matrix">>
    ELSE IF backend = "vectorized" THEN <<"_get_kriging_matrix", "_exec_vector">>
    ELSE IF backend = "loop" THEN <<"_get_kriging_matrix", "_exec_loop">>
    ELSE <<"_get_kriging_matrix">>

-----------------------------------------------------------------------------
(* The inputs the exploration draws from. *)

Q(s) == array([i \in DOMAIN s |-> R(s[i])], Len(s))

\* The second data set holds the same point twice: its kriging matrix is singular.
Regular == [x |-> Q(<<0, 2, 1>>), y |-> Q(<<0, 0, 1>>), z |-> Q(<<1, 2, 4>>)]
Repeated == [x |-> Q(<<0, 2, 0>>), y |-> Q(<<0, 0, 0>>), z |-> Q(<<1, 2, 3>>)]

Kinds == (DOMAIN variogram_dict) \cup {"custom", "cubic"}

ParameterChoices == { None, Some(Q(<<4, 2, 1>>)), Some(Q(<<1, 0>>)) }

FunctionChoices == {"None", "caller_variogram", "not a callable"}

Identity == [scaling |-> R(1), angle |-> 0]

Anisotropies == { Identity, [scaling |-> R(2), angle |-> 90] }

\* A function argument accompanies the kinds 'custom', which requires it, and
\* 'linear', which like every built-in kind ignores it.
ConstructArgs ==
    { c \in [data : {Regular, Repeated}, kind : Kinds,
             variogram_parameters : ParameterChoices,
             variogram_function : FunctionChoices,
             anisotropy : Anisotropies, enable_statistics : BOOLEAN] :
        /\ c.data = Repeated =>
              c.kind = "spherical" /\ c.variogram_parameters = None
                 /\ c.variogram_function = "None" /\ c.anisotropy = Identity
        /\ c.enable_statistics => c.kind = "gaussian" /\ c.data = Regular
        /\ c.variogram_function # "None" => c.kind \in {"custom", "linear"} }

UpdateArgs ==
    { c \in [kind : Kinds, variogram_parameters : ParameterChoices,
             variogram_function : FunctionChoices, anisotropy : Anisotropies] :
        c.variogram_function # "None" => c.kind \in {"custom", "linear"} }

Square == [x |-> Q(<<0, 1>>), y |-> Q(<<0, 1>>)]
Wide == [x |-> Q(<<0, 2, 1>>), y |-> Q(<<0, 1>>)]

Mask22 == <<<<FALSE, TRUE>>, <<FALSE, FALSE>>>>
MaskAll == <<<<TRUE, TRUE>>, <<TRUE, TRUE>>>>
Mask23 == <<<<FALSE, TRUE, FALSE>>, <<FALSE, FALSE, TRUE>>>>
Mask32 == <<<<FALSE, FALSE>>, <<TRUE, FALSE>>, <<FALSE, TRUE>>>>
Mask12 == <<<<TRUE, FALSE>>>>

\* The queries: every style on both pairs of axes, and for 'masked' a mask of
\* the grid's shape, of the swapped shape, of another shape, or none.
Queries ==
    [style : {"grid", "points"}, axes : {Square, Wide}, mask : {None}]
    \cup [style : {"contour"}, axes : {Square}, mask : {None}]
    \cup [style : {"masked"}, axes : {Square},
          mask : {None, Some(Mask22), Some(MaskAll), Some(Mask12)}]
    \cup [style : {"masked"}, axes : {Wide},
          mask : {Some(Mask23), Some(Mask32), Some(Mask22)}]

MaxNeighbours == 3

Solvers ==
    [backend : {"vectorized", "loop", "C"}, n_closest_points : {None}]
    \cup [backend : {"loop"}, n_closest_points : {Some(k) : k \in 1..MaxNeighbours}]
    \cup [backend : {"vectorized"}, n_closest_points : {Some(MaxNeighbours)}]

ExecuteArgs ==
    { [style |-> q.style, axes |-> q.axes, mask |-> q.mask, backend |-> v.backend,
       n_closest_points |-> v.n_closest_points] : q \in Queries, v \in Solvers }

-----------------------------------------------------------------------------
(* The session's operations. *)

NoArgs == [none |-> TRUE]

Call(op, args, out) ==
    [op |-> op, args |-> args, ok |-> out.ok, error |-> out.error,
     zvalues |-> out.zvalues, sigmasq |-> out.sigmasq]

\* The choice of the variogram function (sk.py 215-223 and 285-293).
select_function(kind, variogram_function_arg) ==
    IF kind \notin DOMAIN variogram_dict /\ kind # "custom"
    THEN [ok |-> FALSE, error |-> "ValueError: variogram model not supported",
          function |-> "None"]
    ELSE IF kind = "custom"
    THEN IF variogram_function_arg = "None" \/ ~callable(variogram_function_arg)
         THEN [ok |-> FALSE, error |-> "ValueError: must specify callable function",
               function |-> "None"]
         ELSE [ok |-> TRUE, error |-> "", function |-> variogram_function_arg]
    ELSE [ok |-> TRUE, error |-> "", function |-> variogram_dict[kind]]

\* The fit invoked whatever the check of the kind said.
fit_calls_unchecked(sel, fit, with_statistics) ==
    IF sel.ok /\ fit.ok /\ with_statistics
    THEN <<"initialize_variogram_model", "find_statistics">>
    ELSE <<"initialize_variogram_model">>

\* The steps of __init__ and of update_variogram_model from the check of the
\* kind on (sk.py 215-229 and 250-255, 285-299 and 322-324): the fit is
\* reached only past the check, the statistics only past the fit.
fit_calls(sel, fit, with_statistics) ==
    IF ~sel.ok THEN <<>>
    ELSE IF fit.ok /\ with_statistics
    THEN <<"initialize_variogram_model", "find_statistics">>
    ELSE <<"initialize_variogram_model">>

\* The settings assigned, the working-frame coordinates left as they were.
anisotropy_update_settings_only(scaling, angle) ==
    [scaling |-> scaling, angle |-> angle, x |-> X_ADJUSTED, y |-> Y_ADJUSTED]

\* The defaults 1.0 and 0.0 read as "not given": the session keeps its settings.
anisotropy_update_given_only(scaling, angle) ==
    IF scaling = R(1) /\ angle = 0
    THEN [scaling |-> anisotropy_scaling, angle |-> anisotropy_angle,
          x |-> X_ADJUSTED, y |-> Y_ADJUSTED]
    ELSE [scaling |-> scaling, angle |-> angle,
          x |-> adjust_for_anisotropy(X_ORIG, Y_ORIG, XCENTER, YCENTER, scaling, angle)[1],
          y |-> adjust_for_anisotropy(X_ORIG, Y_ORIG, XCENTER, YCENTER, scaling, angle)[2]]

\* sk.py 271-282: when a passed setting differs from the session's, both
\* settings are assigned and the working-frame coordinates computed anew from
\* the raw ones; otherwise nothing is assigned.
anisotropy_update(scaling, angle) ==
    IF scaling # anisotropy_scaling \/ angle # anisotropy_angle
    THEN [scaling |-> scaling, angle |-> angle,
          x |-> adjust_for_anisotropy(X_ORIG, Y_ORIG, XCENTER, YCENTER, scaling, angle)[1],
          y |-> adjust_for_anisotropy(X_ORIG, Y_ORIG, XCENTER, YCENTER, scaling, angle)[2]]
    ELSE [scaling |-> anisotropy_scaling, angle |-> anisotropy_angle,
          x |-> X_ADJUSTED, y |-> Y_ADJUSTED]

Init ==
    /\ state = "Uninitialized"
    /\ X_ORIG = <<>> /\ Y_ORIG = <<>> /\ Z = <<>>
    /\ XCENTER = Zero /\ YCENTER = Zero
    /\ anisotropy_scaling = R(1) /\ anisotropy_angle = 0
    /\ X_ADJUSTED = <<>> /\ Y_ADJUSTED = <<>>
    /\ variogram_model = "None" /\ variogram_function = "None"
    /\ variogram_model_parameters = <<>>
    /\ statistics = None
    /\ n_updates = 0
    /\ last = Call("none", NoArgs, Return(<<>>, <<>>))
    /\ calls = <<>>

\* SimpleKriging.__init__ (sk.py 186-264).  A constructor that raises leaves
\* no session behind.
Construct ==
    /\ state = "Uninitialized"
    /\ \E c \in ConstructArgs :
        LET data == c.data
            kind == c.kind
            variogram_parameters == c.variogram_parameters
            function == c.variogram_function
            aniso == c.anisotropy
            enable_statistics == c.enable_statistics
            xc == RDiv(RAdd(amax(data.x), amin(data.x)), R(2))
            yc == RDiv(RAdd(amax(data.y), amin(data.y)), R(2))
            adj == adjust_for_anisotropy(data.x, data.y, xc, yc,
                                         aniso.scaling, aniso.angle)
            sel == select_function(kind, function)
            fit == initialize_variogram_model(kind, variogram_parameters)
            args == [kind |-> kind, variogram_function |-> function,
                     scaling |-> aniso.scaling, angle |-> aniso.angle]
            called == fit_calls(sel, fit, enable_statistics)
        IN  IF ~sel.ok \/ ~fit.ok
            THEN /\ state' = "ConstructionFailed"
                 /\ last' = Call("__init__", args,
                                 Raise(IF ~sel.ok THEN sel.error
                                       ELSE "ValueError: variogram parameters"))
                 /\ calls' = called
                 /\ UNCHANGED <<session, n_updates>>
            ELSE /\ state' = "VariogramFitted"
                 /\ X_ORIG' = data.x /\ Y_ORIG' = data.y /\ Z' = data.z
                 /\ XCENTER' = xc /\ YCENTER' = yc
                 /\ anisotropy_scaling' = aniso.scaling
                 /\ anisotropy_angle' = aniso.angle
                 /\ X_ADJUSTED' = adj[1] /\ Y_ADJUSTED' = adj[2]
                 /\ variogram_model' = kind
                 /\ variogram_function' = sel.function
                 /\ variogram_model_parameters' = fit.parameters
                 /\ statistics' = IF enable_statistics
                                  THEN find_statistics(adj[1], adj[2], sel.function,
                                                       fit.parameters)
                                  ELSE None
                 /\ last' = Call("__init__", args, Return(<<>>, <<>>))
                 /\ calls' = called
                 /\ UNCHANGED n_updates

\* SimpleKriging.update_variogram_model (sk.py 266-331): the assignments made
\* before a raise stay made.  (execute leaves the session as it found it, so
\* the sessions an update can start from are explored before any execute.)
UpdateVariogramModel ==
    /\ state = "VariogramFitted"
    /\ n_updates < MaxUpdates
    /\ last.op # "execute"
    /\ \E c \in UpdateArgs :
        LET kind == c.kind
            variogram_parameters == c.variogram_parameters
            function == c.variogram_function
            aniso == c.anisotropy
            upd == anisotropy_update(aniso.scaling, aniso.angle)
            sel == select_function(kind, function)
            fit == initialize_variogram_model(kind, variogram_parameters)
            args == [kind |-> kind, variogram_function |-> function,
                     scaling |-> aniso.scaling, angle |-> aniso.angle]
        IN  /\ anisotropy_scaling' = upd.scaling
            /\ anisotropy_angle' = upd.angle
            /\ X_ADJUSTED' = upd.x /\ Y_ADJUSTED' = upd.y
            /\ variogram_model' = kind
            /\ variogram_function' = IF sel.ok THEN sel.function ELSE variogram_function
            /\ IF sel.ok /\ fit.ok
               THEN /\ variogram_model_parameters' = fit.parameters
                    /\ statistics' = find_statistics(upd.x, upd.y, sel.function,
                                                     fit.parameters)
                    /\ last' = Call("update_variogram_model", args, Return(<<>>, <<>>))
               ELSE /\ UNCHANGED <<variogram_model_parameters, statistics>>
                    /\ last' = Call("update_variogram_model", args,
                                    Raise(IF ~sel.ok THEN sel.error
                                          ELSE "ValueError: variogram parameters"))
            /\ calls' = fit_calls(sel, fit, TRUE)
            /\ n_updates' = n_updates + 1
            /\ UNCHANGED <<state, X_ORIG, Y_ORIG, Z, XCENTER, YCENTER>>

\* An execute that afterwards leaves the raw coordinates in the session's
\* working-frame fields.
Execute_in_place ==
    /\ state = "VariogramFitted"
    /\ \E c \in ExecuteArgs :
        /\ last.op = "execute" => c = last.args
        /\ last' = Call("execute", c,
                        execute(c.style, c.axes.x, c.axes.y, c.mask, c.backend,
                                c.n_closest_points))
        /\ calls' = execute_calls(c.style, c.axes.x, c.axes.y, c.mask, c.backend,
                                  c.n_closest_points)
    /\ X_ADJUSTED' = X_ORIG /\ Y_ADJUSTED' = Y_ORIG
    /\ UNCHANGED <<state, X_ORIG, Y_ORIG, Z, XCENTER, YCENTER, anisotropy_scaling,
                   anisotropy_angle, variogram_model, variogram_function,
                   variogram_model_parameters, statistics, n_updates>>

\* SimpleKriging.execute (sk.py 477-634): reads the session, assigns nothing.
\* One execute is explored from every session state, and after it the same
\* execute once more.
Execute ==
    /\ state = "VariogramFitted"
    /\ \E c \in ExecuteArgs :
        /\ last.op = "execute" => c = last.args
        /\ last' = Call("execute", c,
                        execute(c.style, c.axes.x, c.axes.y, c.mask, c.backend,
                                c.n_closest_points))
        /\ calls' = execute_calls(c.style, c.axes.x, c.axes.y, c.mask, c.backend,
                                  c.n_closest_points)
    /\ UNCHANGED <<state, session, n_updates>>

Next == Construct \/ UpdateVariogramModel \/ Execute

Spec == Init /\ [][Next]_vars

-----------------------------------------------------------------------------
(* Verification.  The arguments and the outcome of the latest execute are in *)
(* last; execute assigns no field of the session, so the session of a state  *)
(* whose latest call is an execute is the session that call ran on.          *)

Executed == last.op = "execute"

\* The latest execute, asked again with another mask, backend or window.
Again(style, mask, backend, n_closest_points) ==
    execute(style, last.args.axes.x, last.args.axes.y, mask, backend, n_closest_points)

\* A result array, listed point after point as the solvers produce it.
Listed(cells) == IF last.args.style = "points" THEN cells ELSE flatten(cells)

\* The latest execute passed every check of its arguments and of the session.
Validated ==
    /\ variogram_model \notin {"linear", "power"}
    /\ last.args.style \in Styles
    /\ Evaluable
    /\ last.args.style = "masked" =>
          /\ last.args.mask # None
          /\ \/ /\ Len(last.args.mask[1]) = Len(last.args.axes.y)
                /\ Len(last.args.mask[1][1]) = Len(last.args.axes.x)
             \/ /\ Len(last.args.mask[1]) = Len(last.args.axes.x)
                /\ Len(last.args.mask[1][1]) = Len(last.args.axes.y)
    /\ last.args.style = "points" => Len(last.args.axes.x) = Len(last.args.axes.y)

\* The mask of the latest (validated) execute, one flag per listed point.
QueryMask ==
    LET nx == Len(last.args.axes.x)
        ny == Len(last.args.axes.y)
        given == last.args.mask[1]
    IN  IF last.args.style = "points" THEN [j \in 1..nx |-> FALSE]
        ELSE IF last.args.style = "grid" THEN [j \in 1..(ny * nx) |-> FALSE]
        ELSE IF Len(given) = ny /\ Len(given[1]) = nx
        THEN [j \in 1..(ny * nx) |-> given[((j - 1) \div nx) + 1][((j - 1) % nx) + 1]]
        ELSE [j \in 1..(ny * nx) |-> given[((j - 1) % nx) + 1][((j - 1) \div nx) + 1]]

\* C1: in every session state the matrix returned by _get_kriging_matrix has
\* every diagonal entry exactly 0.
C1_ZeroDiagonal ==
    state = "VariogramFitted" /\ Evaluable =>
        \A i \in 1..Len(X_ADJUSTED) :
            _get_kriging_matrix(Len(X_ADJUSTED))[i][i] = Zero

\* C2: exact interpolator.  With a bounded-sill variogram and each of the three
\* backends, execute returns, at every query point that coincides with data
\* point i, the estimate z[i] and the variance 0.
C2_ExactInterpolator ==
    ( /\ Executed
      /\ Validated
      /\ variogram_model \in {"gaussian", "spherical", "exponential"}
      /\ variogram_function = variogram_dict[variogram_model]
      /\ \/ last.args.n_closest_points = None /\ last.args.backend \in {"vectorized", "loop"}
         \/ last.args.n_closest_points # None /\ last.args.backend = "loop"
      /\ ~Singular(_get_kriging_matrix(Len(X_ADJUSTED))) )
    =>
    LET bd == distances(xpts(last.args.style, last.args.axes.x, last.args.axes.y),
                        ypts(last.args.style, last.args.axes.x, last.args.axes.y))
    IN  \A j \in 1..Len(bd) : \A i \in 1..Len(X_ADJUSTED) :
            bd[j][i] = Zero /\ ~QueryMask[j] =>
                /\ last.ok
                /\ Listed(last.zvalues)[j] = Cell(Z[i])
                /\ Listed(last.sigmasq)[j] = Cell(Zero)

\* C3: on the same session and the same query, without n_closest_points, the
\* backends 'vectorized' and 'loop' end the same way, and when they return they
\* return the same estimate and the same variance at every unmasked point.
C3_BackendsAgree ==
    Executed /\ last.args.backend = "vectorized" /\ last.args.n_closest_points = None =>
        LET loop == Again(last.args.style, last.args.mask, "loop", None)
        IN  /\ loop.ok = last.ok
            /\ loop.error = last.error
            /\ last.ok =>
                  \A j \in DOMAIN QueryMask :
                      ~QueryMask[j] =>
                          /\ Listed(last.zvalues)[j] = Listed(loop.zvalues)[j]
                          /\ Listed(last.sigmasq)[j] = Listed(loop.sigmasq)[j]
                          /\ ~Listed(last.zvalues)[j].masked
                          /\ ~Listed(last.sigmasq)[j].masked

\* A vectorized execute returned on a mask with masked and unmasked cells,
\* with a variance that is not zero at an unmasked cell.
C3_Witness ==
    /\ Executed /\ last.ok
    /\ last.args.backend = "vectorized" /\ last.args.n_closest_points = None
    /\ last.args.style = "masked"
    /\ \E j \in DOMAIN QueryMask : QueryMask[j]
    /\ \E j \in DOMAIN QueryMask :
          ~QueryMask[j] /\ Listed(last.sigmasq)[j].value # Zero

\* C4: with a linear or power variogram every execute fails with the
\* model error, whatever its arguments: no other check comes first and no
\* result is returned.
C4_UnboundedRejectedFirst ==
    Executed /\ variogram_model \in {"linear", "power"} =>
        /\ ~last.ok
        /\ last.error = "ValueError: variogram must have well behaved correlation"
        /\ last.zvalues = <<>> /\ last.sigmasq = <<>>

\* An execute on a power variogram with a style that does not exist: the
\* model error is the one raised.
C4_Witness ==
    /\ Executed /\ variogram_model = "power"
    /\ last.args.style = "contour"
    /\ last.error = "ValueError: variogram must have well behaved correlation"

\* C5: an update_variogram_model that raises leaves the variogram kind,
\* function and parameters, the anisotropy scaling and angle and the
\* working-frame coordinates as they were before the call.
C5_FailedUpdateKeepsSession ==
    [][ (last'.op = "update_variogram_model" /\ n_updates' = n_updates + 1 /\ ~last'.ok)
            => /\ variogram_model' = variogram_model
               /\ variogram_function' = variogram_function
               /\ variogram_model_parameters' = variogram_model_parameters
               /\ anisotropy_scaling' = anisotropy_scaling
               /\ anisotropy_angle' = anisotropy_angle
               /\ X_ADJUSTED' = X_ADJUSTED
               /\ Y_ADJUSTED' = Y_ADJUSTED ]_vars

\* C6: in every session state the kind is one of the six known names, a
\* built-in kind has the function registered for it, and 'custom' has a
\* callable.
C6_KindAndFunctionConsistent ==
    state = "VariogramFitted" =>
        /\ variogram_model \in (DOMAIN variogram_dict) \cup {"custom"}
        /\ variogram_model \in DOMAIN variogram_dict =>
              variogram_function = variogram_dict[variogram_model]
        /\ variogram_model = "custom" => callable(variogram_function)

\* C7: a moving-window execute whose window holds all n data points returns
\* what the point loop without a window returns on the same session and query.
C7_FullWindowEqualsLoop ==
    ( /\ Executed
      /\ last.args.backend = "loop"
      /\ last.args.n_closest_points = Some(Len(X_ADJUSTED)) )
    =>
    LET loop == Again(last.args.style, last.args.mask, "loop", None)
    IN  loop.ok => /\ last.ok
                   /\ last.zvalues = loop.zvalues
                   /\ last.sigmasq = loop.sigmasq

\* C8: a 'masked' execute with a mask of the grid's shape flags a cell invalid
\* in both arrays exactly when its mask entry is True, and at every other cell
\* returns what style 'grid' returns on the same axes with the same backend.
C8_MaskedMirrorsMask ==
    ( /\ Executed /\ last.ok
      /\ last.args.style = "masked"
      /\ Len(last.args.mask[1]) = Len(last.args.axes.y)
      /\ Len(last.args.mask[1][1]) = Len(last.args.axes.x) )
    =>
    LET grid == Again("grid", None, last.args.backend, last.args.n_closest_points)
        given == last.args.mask[1]
    IN  \A r \in 1..Len(last.args.axes.y) : \A c \in 1..Len(last.args.axes.x) :
            /\ last.zvalues[r][c].masked = given[r][c]
            /\ last.sigmasq[r][c].masked = given[r][c]
            /\ ~given[r][c] => /\ grid.ok
                               /\ last.zvalues[r][c] = grid.zvalues[r][c]
                               /\ last.sigmasq[r][c] = grid.sigmasq[r][c]

\* A 'masked' execute returned on a 2-by-3 grid whose mask has both values.
C8_Witness ==
    /\ Executed /\ last.ok
    /\ last.args.style = "masked" /\ last.args.mask = Some(Mask23)
    /\ last.args.backend = "loop"
    /\ last.sigmasq[1][1].value # Zero

\* C9: in style 'masked' a mask of shape (ny, nx) is used as given, a mask of
\* shape (nx, ny) with nx # ny is transposed and then used, and a mask of any
\* other shape, or no mask, makes execute fail.
C9_MaskShape ==
    Executed /\ last.args.style = "masked" =>
        LET nx == Len(last.args.axes.x)
            ny == Len(last.args.axes.y)
            given == last.args.mask[1]
            as_given == Len(given) = ny /\ Len(given[1]) = nx
            turned == Len(given) = nx /\ Len(given[1]) = ny
            checked == variogram_model \notin {"linear", "power"} /\ Evaluable
        IN  IF last.args.mask = None
            THEN /\ ~last.ok
                 /\ checked => last.error = "IOError: must specify boolean masking array"
            ELSE IF ~as_given /\ ~turned
            THEN /\ ~last.ok
                 /\ checked => last.error = "ValueError: mask dimensions do not match"
            ELSE /\ last.ok =>
                    \A r \in 1..ny : \A c \in 1..nx :
                        last.zvalues[r][c].masked
                            = (IF as_given THEN given[r][c] ELSE given[c][r])
                 /\ ~as_given =>
                    LET turned_mask == [c \in 1..ny |-> [r \in 1..nx |-> given[r][c]]]
                        same == Again("masked", Some(turned_mask), last.args.backend,
                                      last.args.n_closest_points)
                    IN  /\ same.ok = last.ok
                        /\ same.error = last.error
                        /\ same.zvalues = last.zvalues
                        /\ same.sigmasq = last.sigmasq

\* A 'masked' execute returned on a 2-by-3 grid given a 3-by-2 mask.
C9_Witness ==
    /\ Executed /\ last.ok
    /\ last.args.style = "masked" /\ last.args.mask = Some(Mask32)
    /\ Len(last.args.axes.x) = 3 /\ Len(last.args.axes.y) = 2
    /\ last.zvalues[1][2].masked /\ ~last.zvalues[2][1].masked

Called(name) == \E k \in DOMAIN calls : calls[k] = name
Count(name) == Cardinality({k \in DOMAIN calls : calls[k] = name})

\* C11: a construction or an update_variogram_model whose kind is neither a
\* built-in name nor 'custom', or whose kind is 'custom' with a function that
\* is missing or not callable, fails with a configuration error, and the
\* variogram fit has not been invoked when it fails.
C11_ConfigurationErrorBeforeFit ==
    ( /\ last.op \in {"__init__", "update_variogram_model"}
      /\ \/ last.args.kind \notin {"linear", "power", "gaussian", "spherical",
                                    "exponential", "custom"}
         \/ /\ last.args.kind = "custom"
            /\ last.args.variogram_function \notin CustomFunctions )
    =>
    /\ ~last.ok
    /\ last.error \in {"ValueError: variogram model not supported",
                       "ValueError: must specify callable function"}
    /\ ~Called("initialize_variogram_model")
    /\ ~Called("find_statistics")

\* An update_variogram_model with kind 'custom' and a function argument that
\* is not callable was refused, no step of the fit taken.
C11_Witness ==
    /\ last.op = "update_variogram_model" /\ ~last.ok
    /\ last.args.kind = "custom"
    /\ last.args.variogram_function = "not a callable"
    /\ last.error = "ValueError: must specify callable function"
    /\ calls = <<>>

\* v is midway between the smallest and the largest entry of s.
Midpoint(s, v) ==
    \E lo \in DOMAIN s : \E hi \in DOMAIN s :
        /\ \A k \in DOMAIN s : ~RLess(s[k], s[lo]) /\ ~RLess(s[hi], s[k])
        /\ RAdd(v, v) = RAdd(s[lo], s[hi])

\* C12: every step that ends in a session state ends with the center at the
\* midpoint of the bounding box of the raw coordinates, and no step taken on
\* a session (an update_variogram_model or an execute, returning or raising)
\* changes the center.
C12_FixedCenter ==
    [][ state' = "VariogramFitted" =>
            /\ Midpoint(X_ORIG', XCENTER') /\ Midpoint(Y_ORIG', YCENTER')
            /\ state = "VariogramFitted" =>
                  XCENTER' = XCENTER /\ YCENTER' = YCENTER ]_vars

\* An execute on a session whose update_variogram_model failed after it had
\* replaced the working-frame coordinates; the center is where the
\* construction put it.
C12_Witness ==
    /\ Executed /\ n_updates = 1
    /\ variogram_model = "cubic"
    /\ statistics # None
    /\ statistics[1].x # X_ADJUSTED
    /\ XCENTER = R(1) /\ YCENTER = Rat(1, 2)

\* C13: in every session state the working-frame coordinates are the
\* anisotropy transform of the raw coordinates under the session's scaling,
\* angle and center, also after an update_variogram_model that raised.
C13_WorkingFrameCurrent ==
    state = "VariogramFitted" =>
        <<X_ADJUSTED, Y_ADJUSTED>>
            = adjust_for_anisotropy(X_ORIG, Y_ORIG, XCENTER, YCENTER,
                                    anisotropy_scaling, anisotropy_angle)

\* An update_variogram_model passed a scaling of 2 and an angle of 90 degrees
\* and then raised; the coordinates it left differ from the raw ones and
\* from the ones the construction had computed.
C13_Witness ==
    /\ last.op = "update_variogram_model" /\ ~last.ok
    /\ last.args.scaling = R(2) /\ last.args.angle = 90
    /\ statistics # None
    /\ statistics[1].x = X_ORIG /\ statistics[1].y = Y_ORIG
    /\ <<X_ADJUSTED, Y_ADJUSTED>> # <<X_ORIG, Y_ORIG>>

\* The point (x, y) asked for alone, in style 'points', with the backend and
\* the window of the latest execute.
Single(x, y) ==
    execute("points", <<x>>, <<y>>, None, last.args.backend, last.args.n_closest_points)

\* The cell holds what the point (x, y) asked for alone gets.
Belongs(zcell, scell, x, y) ==
    LET alone == Single(x, y)
    IN  /\ alone.ok
        /\ zcell = alone.zvalues[1]
        /\ scell = alone.sigmasq[1]

\* C14: an execute that returns in style 'points' with npt pairs returns two
\* flat sequences of length npt whose entry j is the result for pair j; in
\* style 'grid' or 'masked' with nx x-coordinates and ny y-coordinates it
\* returns two grids of ny rows and nx columns whose cell (r, c), when it is
\* not masked, is the result for the point (xpoints[c], ypoints[r]).
C14_OutputShape ==
    Executed /\ last.ok =>
        LET xs == last.args.axes.x
            ys == last.args.axes.y
        IN  IF last.args.style = "points"
            THEN /\ DOMAIN last.zvalues = 1..Len(xs)
                 /\ DOMAIN last.sigmasq = 1..Len(xs)
                 /\ \A j \in 1..Len(xs) :
                        Belongs(last.zvalues[j], last.sigmasq[j], xs[j], ys[j])
            ELSE /\ DOMAIN last.zvalues = 1..Len(ys)
                 /\ DOMAIN last.sigmasq = 1..Len(ys)
                 /\ \A r \in 1..Len(ys) :
                        /\ DOMAIN last.zvalues[r] = 1..Len(xs)
                        /\ DOMAIN last.sigmasq[r] = 1..Len(xs)
                        /\ \A c \in 1..Len(xs) :
                              ~last.zvalues[r][c].masked =>
                                  Belongs(last.zvalues[r][c], last.sigmasq[r][c],
                                          xs[c], ys[r])

\* A 'grid' execute returned on three x-coordinates and two y-coordinates:
\* two rows of three cells, and the cells (1, 2) and (2, 1) differ.
C14_Witness ==
    /\ Executed /\ last.ok
    /\ last.args.style = "grid" /\ last.args.axes = Wide
    /\ Len(last.zvalues) = 2 /\ Len(last.zvalues[1]) = 3
    /\ last.zvalues[1][2] # last.zvalues[2][1]

SolverNames == {"_exec_vector", "_exec_loop", "_exec_loop_moving_window"}

\* The covariance matrix of the data points, from the session's fields as
\* they are in this state.
CurrentMatrix ==
    [i \in 1..Len(Z) |-> [j \in 1..Len(Z) |->
        LET dx == RSub(X_ADJUSTED[i], X_ADJUSTED[j])
            dy == RSub(Y_ADJUSTED[i], Y_ADJUSTED[j])
        IN  RSub(variogram_model_parameters[1],
                 EvalVariogram(variogram_function, variogram_model_parameters,
                               RAdd(RMul(dx, dx), RMul(dy, dy))))]]

\* What the latest execute returns when its solver is handed the given matrix.
SolvedWith(a) ==
    LET style == last.args.style
        nx == Len(last.args.axes.x)
        ny == Len(last.args.axes.y)
        npt == IF style = "points" THEN nx ELSE ny * nx
    IN  finish(style, ny, nx, flatmask(style, last.args.mask, ny, nx, npt),
               dispatch(a,
                        distances(xpts(style, last.args.axes.x, last.args.axes.y),
                                  ypts(style, last.args.axes.x, last.args.axes.y)),
                        flatmask(style, last.args.mask, ny, nx, npt),
                        last.args.backend, last.args.n_closest_points))

\* C15: a construction and an update_variogram_model that return have invoked
\* the variogram fit exactly once; an execute that returns has built the
\* kriging matrix exactly once, first of all, and run exactly one solver,
\* last of all, and its result is the one that solver gives on the matrix of
\* the session's present variogram function, parameters and working-frame
\* coordinates.
C15_MatrixBuiltOncePerExecute ==
    /\ last.op \in {"__init__", "update_variogram_model"} /\ last.ok =>
          Count("initialize_variogram_model") = 1
    /\ Executed /\ last.ok =>
          /\ Count("_get_kriging_matrix") = 1
          /\ calls[1] = "_get_kriging_matrix"
          /\ Cardinality({k \in DOMAIN calls : calls[k] \in SolverNames}) = 1
          /\ calls[Len(calls)] \in SolverNames
          /\ LET solved == SolvedWith(CurrentMatrix)
             IN  solved.zvalues = last.zvalues /\ solved.sigmasq = last.sigmasq

\* An execute returned on a session whose latest update_variogram_model had
\* returned with a spherical variogram, the working frame stretched and turned.
C15_Witness ==
    /\ Executed /\ last.ok /\ n_updates = 1
    /\ variogram_model = "spherical"
    /\ statistics # None
    /\ statistics[1].function = "spherical_variogram_model"
    /\ anisotropy_scaling = R(2) /\ anisotropy_angle = 90
    /\ <<X_ADJUSTED, Y_ADJUSTED>> # <<X_ORIG, Y_ORIG>>
    /\ calls = <<"_get_kriging_matrix", "_exec_vector">>

\* C16: in a moving-window execute with a window of k data points, 2 <= k < n,
\* the indices that select the reduced matrix of every unmasked query point
\* are the indices of its k nearest data points, none other and none twice,
\* and the reduced matrix has order k, the length of the vector it is solved
\* against.
C16_WindowIndices ==
    ( /\ Executed /\ Validated
      /\ last.args.backend = "loop"
      /\ last.args.n_closest_points # None
      /\ last.args.n_closest_points[1] \in 2..(Len(Z) - 1) )
    =>
    LET k == last.args.n_closest_points[1]
        a_all == CurrentMatrix
        bd_idx == query(distances(xpts(last.args.style, last.args.axes.x, last.args.axes.y),
                                  ypts(last.args.style, last.args.axes.x, last.args.axes.y)),
                        k)
    IN  \A i \in DOMAIN QueryMask :
            ~QueryMask[i] =>
                /\ Len(bd_idx[i]) = k
                /\ a_selector(bd_idx[i], a_all) = bd_idx[i]
                /\ Cardinality({a_selector(bd_idx[i], a_all)[r] :
                                   r \in DOMAIN a_selector(bd_idx[i], a_all)}) = k
                /\ Len(submatrix(a_all, a_selector(bd_idx[i], a_all))) = k

\* C17: an execute, returning or raising, changes no field of the session,
\* and an execute that follows an execute with the same arguments ends as the
\* first one did: the same result or the same error, after the same calls.
C17_ExecuteReadOnly ==
    [][ last'.op = "execute" =>
            /\ session' = session
            /\ state' = state
            /\ (last.op = "execute" /\ last'.args = last.args) =>
                  last' = last /\ calls' = calls ]_vars

\* An execute raised in its solver, in the linear solve of the moving window;
\* the session still holds the stretched and turned frame, and the same
\* execute asked again raises the same error.
C17_Witness ==
    /\ Executed /\ ~last.ok
    /\ last.error = "ValueError: incompatible dimensions"
    /\ calls[Len(calls)] = "_exec_loop_moving_window"
    /\ anisotropy_scaling = R(2) /\ anisotropy_angle = 90
    /\ <<X_ADJUSTED, Y_ADJUSTED>>
          = adjust_for_anisotropy(X_ORIG, Y_ORIG, XCENTER, YCENTER, R(2), 90)
    /\ ~Again(last.args.style, last.args.mask, last.args.backend,
              last.args.n_closest_points).ok
    /\ Again(last.args.style, last.args.mask, last.args.backend,
             last.args.n_closest_points).error = last.error

\* C18: after every update_variogram_model, returning or raising, the
\* session's scaling and angle are the ones passed to the call (1.0 and 0.0
\* when the caller leaves them out) and the working-frame coordinates are the
\* transform of the raw ones under them: a call without them on a session
\* with another anisotropy resets the session to the identity transform.
C18_UpdateSetsAnisotropy ==
    last.op = "update_variogram_model" =>
        /\ anisotropy_scaling = last.args.scaling
        /\ anisotropy_angle = last.args.angle
        /\ <<X_ADJUSTED, Y_ADJUSTED>>
              = adjust_for_anisotropy(X_ORIG, Y_ORIG, XCENTER, YCENTER,
                                      last.args.scaling, last.args.angle)

\* An update_variogram_model with the default scaling and angle on a session
\* constructed with a scaling of 2 and an angle of 90 degrees (its statistics,
\* which the refused update did not replace, are those of the stretched
\* frame): the call recomputed the coordinates, which are the raw ones again.
C18_Witness ==
    /\ last.op = "update_variogram_model"
    /\ last.args.scaling = R(1) /\ last.args.angle = 0
    /\ statistics # None
    /\ <<statistics[1].x, statistics[1].y>>
          = adjust_for_anisotropy(X_ORIG, Y_ORIG, XCENTER, YCENTER, R(2), 90)
    /\ <<statistics[1].x, statistics[1].y>> # <<X_ORIG, Y_ORIG>>
    /\ anisotropy_scaling = R(1) /\ anisotropy_angle = 0
    /\ <<X_ADJUSTED, Y_ADJUSTED>> = <<X_ORIG, Y_ORIG>>

====
